---- MODULE Spec2Model ----
(***************************************************************************)
(* The generated upcall index rffi_upcallsindex.h and the consumers of it: *)
(* the C preprocessor, which reads the #define lines in file order and     *)
(* lets a later definition of a name replace an earlier one; the slot      *)
(* registry, which registers the same declarations and rejects a           *)
(* conflicting one; the implementation table, which is initialised         *)
(* eagerly from the effective bindings; and the dispatch gateway's bounds  *)
(* check.                                                                  *)
(***************************************************************************)
EXTENDS Integers, Sequences, FiniteSets, TLC

\* The #define lines of the header, in file order: <<name, slot>>.
\* Entry i is line i + FirstLine - 1 of the file.
Header ==
  <<
     <<"ATTRIB_x", 0>>,                         \* line 5
     <<"BODY_x", 1>>,                           \* line 6
     <<"CAAR_x", 2>>,                           \* line 7
     <<"CAD4R_x", 3>>,                          \* line 8
     <<"CADDDR_x", 4>>,                         \* line 9
     <<"CADDR_x", 5>>,                          \* line 10
     <<"CADR_x", 6>>,                           \* line 11
     <<"CAR_x", 7>>,                            \* line 12
     <<"CDAR_x", 8>>,                           \* line 13
     <<"CDDDR_x", 9>>,                          \* line 14
     <<"CDDR_x", 10>>,                          \* line 15
     <<"CDR_x", 11>>,                           \* line 16
     <<"CLOENV_x", 12>>,                        \* line 17
     <<"COMPLEX_x", 13>>,                       \* line 18
     <<"DUPLICATE_ATTRIB_x", 14>>,              \* line 19
     <<"ENCLOS_x", 15>>,                        \* line 20
     <<"FASTR_getConnectionChar_x", 16>>,       \* line 21
     <<"FORMALS_x", 17>>,                       \* line 22
     <<"GetRNGstate_x", 18>>,                   \* line 23
     <<"INTEGER_x", 19>>,                       \* line 24
     <<"IS_S4_OBJECT_x", 20>>,                  \* line 25
     <<"LENGTH_x", 21>>,                        \* line 26
     <<"LOGICAL_x", 22>>,                       \* line 27
     <<"NAMED_x", 23>>,                         \* line 28
     <<"OBJECT_x", 24>>,                        \* line 29
     <<"PRCODE_x", 25>>,                        \* line 30
     <<"PRENV_x", 26>>,                         \* line 31
     <<"PRINTNAME_x", 27>>,                     \* line 32
     <<"PRSEEN_x", 28>>,                        \* line 33
     <<"PRVALUE_x", 29>>,                       \* line 34
     <<"PutRNGstate_x", 30>>,                   \* line 35
     <<"RAW_x", 31>>,                           \* line 36
     <<"RDEBUG_x", 32>>,                        \* line 37
     <<"REAL_x", 33>>,                          \* line 38
     <<"RSTEP_x", 34>>,                         \* line 39
     <<"R_BaseEnv_x", 35>>,                     \* line 40
     <<"R_BaseNamespace_x", 36>>,               \* line 41
     <<"R_BindingIsLocked_x", 37>>,             \* line 42
     <<"R_CHAR_x", 38>>,                        \* line 43
     <<"R_CleanUp_x", 39>>,                     \* line 44
     <<"R_ExternalPtrAddr_x", 40>>,             \* line 45
     <<"R_ExternalPtrProtected_x", 41>>,        \* line 46
     <<"R_ExternalPtrTag_x", 42>>,              \* line 47
     <<"R_FindNamespace_x", 43>>,               \* line 48
     <<"R_GetConnection_x", 44>>,               \* line 49
     <<"R_GlobalContext_x", 45>>,               \* line 50
     <<"R_GlobalEnv_x", 46>>,                   \* line 51
     <<"R_Home_x", 47>>,                        \* line 52
     <<"R_HomeDir_x", 48>>,                     \* line 53
     <<"R_Interactive_x", 49>>,                 \* line 54
     <<"R_LockBinding_x", 50>>,                 \* line 55
     <<"R_MakeExternalPtr_x", 51>>,             \* line 56
     <<"R_MethodsNamespace_x", 52>>,            \* line 57
     <<"R_NamespaceRegistry_x", 53>>,           \* line 58
     <<"R_NewHashedEnv_x", 54>>,                \* line 59
     <<"R_ParseVector_x", 55>>,                 \* line 60
     <<"R_PreserveObject_x", 56>>,              \* line 61
     <<"R_PromiseExpr_x", 57>>,                 \* line 62
     <<"R_ProtectWithIndex_x", 58>>,            \* line 63
     <<"R_ReadConnection_x", 59>>,              \* line 64
     <<"R_ReleaseObject_x", 60>>,               \* line 65
     <<"R_Reprotect_x", 61>>,                   \* line 66
     <<"R_SetExternalPtrAddr_x", 62>>,          \* line 67
     <<"R_SetExternalPtrProtected_x", 63>>,     \* line 68
     <<"R_SetExternalPtrTag_x", 64>>,           \* line 69
     <<"R_TempDir_x", 65>>,                     \* line 70
     <<"R_ToplevelExec_x", 66>>,                \* line 71
     <<"R_WriteConnection_x", 67>>,             \* line 72
     <<"R_alloc_x", 68>>,                       \* line 73
     <<"R_compute_identical_x", 69>>,           \* line 74
     <<"R_do_MAKE_CLASS_x", 70>>,               \* line 75
     <<"R_do_new_object_x", 71>>,               \* line 76
     <<"R_do_slot_x", 72>>,                     \* line 77
     <<"R_do_slot_assign_x", 73>>,              \* line 78
     <<"R_getClassDef_x", 74>>,                 \* line 79
     <<"R_getContextCall_x", 75>>,              \* line 80
     <<"R_getContextEnv_x", 76>>,               \* line 81
     <<"R_getContextFun_x", 77>>,               \* line 82
     <<"R_getContextSrcRef_x", 78>>,            \* line 83
     <<"R_getGlobalFunctionContext_x", 79>>,    \* line 84
     <<"R_getParentFunctionContext_x", 80>>,    \* line 85
     <<"R_has_slot_x", 81>>,                    \* line 86
     <<"R_insideBrowser_x", 82>>,               \* line 87
     <<"R_isEqual_x", 83>>,                     \* line 88
     <<"R_isGlobal_x", 84>>,                    \* line 89
     <<"R_lsInternal3_x", 85>>,                 \* line 90
     <<"R_new_custom_connection_x", 86>>,       \* line 91
     <<"R_tryEval_x", 87>>,                     \* line 92
     <<"R_unLockBinding_x", 88>>,               \* line 93
     <<"Rf_GetOption1_x", 89>>,                 \* line 94
     <<"Rf_NonNullStringMatch_x", 90>>,         \* line 95
     <<"Rf_PairToVectorList_x", 91>>,           \* line 96
     <<"Rf_PrintValue_x", 92>>,                 \* line 97
     <<"Rf_ScalarDouble_x", 93>>,               \* line 98
     <<"Rf_ScalarInteger_x", 94>>,              \* line 99
     <<"Rf_ScalarLogical_x", 95>>,              \* line 100
     <<"Rf_ScalarString_x", 96>>,               \* line 101
     <<"Rf_VectorToPairList_x", 97>>,           \* line 102
     <<"Rf_allocArray_x", 98>>,                 \* line 103
     <<"Rf_allocMatrix_x", 99>>,                \* line 104
     <<"Rf_allocVector_x", 100>>,               \* line 105
     <<"Rf_any_duplicated_x", 101>>,            \* line 106
     <<"Rf_any_duplicated3_x", 102>>,           \* line 107
     <<"Rf_asChar_x", 103>>,                    \* line 108
     <<"Rf_asCharacterFactor_x", 104>>,         \* line 109
     <<"Rf_asInteger_x", 105>>,                 \* line 110
     <<"Rf_asLogical_x", 106>>,                 \* line 111
     <<"Rf_asReal_x", 107>>,                    \* line 112
     <<"Rf_classgets_x", 108>>,                 \* line 113
     <<"Rf_coerceVector_x", 109>>,              \* line 114
     <<"Rf_cons_x", 110>>,                      \* line 115
     <<"Rf_copyListMatrix_x", 111>>,            \* line 116
     <<"Rf_copyMatrix_x", 112>>,                \* line 117
     <<"Rf_copyMostAttrib_x", 113>>,            \* line 118
     <<"Rf_dchisq_x", 114>>,                    \* line 119
     <<"Rf_defineVar_x", 115>>,                 \* line 120
     <<"Rf_dnchisq_x", 116>>,                   \* line 121
     <<"Rf_dunif_x", 117>>,                     \* line 122
     <<"Rf_duplicate_x", 118>>,                 \* line 123
     <<"Rf_error_x", 119>>,                     \* line 124
     <<"Rf_errorcall_x", 120>>,                 \* line 125
     <<"Rf_eval_x", 121>>,                      \* line 126
     <<"Rf_findFun_x", 122>>,                   \* line 127
     <<"Rf_findVar_x", 123>>,                   \* line 128
     <<"Rf_findVarInFrame_x", 124>>,            \* line 129
     <<"Rf_findVarInFrame3_x", 125>>,           \* line 130
     <<"Rf_getAttrib_x", 126>>,                 \* line 131
     <<"Rf_gsetVar_x", 127>>,                   \* line 132
     <<"Rf_inherits_x", 128>>,                  \* line 133
     <<"Rf_install_x", 129>>,                   \* line 134
     <<"Rf_installChar_x", 130>>,               \* line 135
     <<"Rf_isNull_x", 131>>,                    \* line 136
     <<"Rf_isString_x", 132>>,                  \* line 137
     <<"Rf_lengthgets_x", 133>>,                \* line 138
     <<"Rf_match_x", 134>>,                     \* line 139
     <<"Rf_mkCharLenCE_x", 135>>,               \* line 140
     <<"Rf_namesgets_x", 136>>,                 \* line 141
     <<"Rf_ncols_x", 137>>,                     \* line 142
     <<"Rf_nrows_x", 138>>,                     \* line 143
     <<"Rf_pchisq_x", 139>>,                    \* line 144
     <<"Rf_pnchisq_x", 140>>,                   \* line 145
     <<"Rf_protect_x", 141>>,                   \* line 146
     <<"Rf_punif_x", 142>>,                     \* line 147
     <<"Rf_qchisq_x", 143>>,                    \* line 148
     <<"Rf_qnchisq_x", 144>>,                   \* line 149
     <<"Rf_qunif_x", 145>>,                     \* line 150
     <<"Rf_rchisq_x", 146>>,                    \* line 151
     <<"Rf_rnchisq_x", 147>>,                   \* line 152
     <<"Rf_runif_x", 148>>,                     \* line 153
     <<"Rf_setAttrib_x", 149>>,                 \* line 154
     <<"Rf_str2type_x", 150>>,                  \* line 155
     <<"Rf_unprotect_x", 151>>,                 \* line 156
     <<"Rf_unprotect_ptr_x", 152>>,             \* line 157
     <<"Rf_warning_x", 153>>,                   \* line 158
     <<"Rf_warningcall_x", 154>>,               \* line 159
     <<"Rprintf_x", 155>>,                      \* line 160
     <<"SETCAD4R_x", 156>>,                     \* line 161
     <<"SETCADDDR_x", 157>>,                    \* line 162
     <<"SETCADDR_x", 158>>,                     \* line 163
     <<"SETCADR_x", 159>>,                      \* line 164
     <<"SETCAR_x", 160>>,                       \* line 165
     <<"SETCDR_x", 161>>,                       \* line 166
     <<"SET_BODY_x", 162>>,                     \* line 167
     <<"SET_CLOENV_x", 163>>,                   \* line 168
     <<"SET_FORMALS_x", 164>>,                  \* line 169
     <<"SET_NAMED_FASTR_x", 165>>,              \* line 170
     <<"SET_RDEBUG_x", 166>>,                   \* line 171
     <<"SET_RSTEP_x", 167>>,                    \* line 172
     <<"SET_S4_OBJECT_x", 168>>,                \* line 173
     <<"SET_STRING_ELT_x", 169>>,               \* line 174
     <<"SET_SYMVALUE_x", 170>>,                 \* line 175
     <<"SET_TAG_x", 171>>,                      \* line 176
     <<"SET_TYPEOF_FASTR_x", 172>>,             \* line 177
     <<"SET_VECTOR_ELT_x", 173>>,               \* line 178
     <<"STRING_ELT_x", 174>>,                   \* line 179
     <<"SYMVALUE_x", 175>>,                     \* line 180
     <<"TAG_x", 176>>,                          \* line 181
     <<"TYPEOF_x", 177>>,                       \* line 182
     <<"UNSET_S4_OBJECT_x", 178>>,              \* line 183
     <<"VECTOR_ELT_x", 179>>,                   \* line 184
     <<"forceSymbols_x", 180>>,                 \* line 185
     <<"getCCallable_x", 181>>,                 \* line 186
     <<"getConnectionClassString_x", 182>>,     \* line 187
     <<"getEmbeddingDLLInfo_x", 183>>,          \* line 188
     <<"getOpenModeString_x", 184>>,            \* line 189
     <<"getSummaryDescription_x", 185>>,        \* line 190
     <<"isSeekable_x", 186>>,                   \* line 191
     <<"octsize_x", 187>>,                      \* line 192
     <<"registerCCallable_x", 188>>,            \* line 193
     <<"registerRoutines_x", 189>>,             \* line 194
     <<"restoreHandlerStacks_x", 190>>,         \* line 195
     <<"setDotSymbolValues_x", 191>>,           \* line 196
     <<"unif_rand_x", 192>>,                    \* line 197
     <<"useDynamicSymbols_x", 193>>,            \* line 198
     <<"Rf_any_duplicated3_x", 102>>,           \* line 199
     <<"Rf_asChar_x", 103>>,                    \* line 200
     <<"Rf_asCharacterFactor_x", 104>>,         \* line 201
     <<"Rf_asInteger_x", 105>>,                 \* line 202
     <<"Rf_asLogical_x", 106>>,                 \* line 203
     <<"Rf_asReal_x", 107>>,                    \* line 204
     <<"Rf_classgets_x", 108>>,                 \* line 205
     <<"Rf_coerceVector_x", 109>>,              \* line 206
     <<"Rf_cons_x", 110>>,                      \* line 207
     <<"Rf_copyListMatrix_x", 111>>,            \* line 208
     <<"isSeekable_x", 186>>,                   \* line 209
     <<"octsize_x", 187>>,                      \* line 210
     <<"registerCCallable_x", 188>>,            \* line 211
     <<"registerRoutines_x", 189>>,             \* line 212
     <<"restoreHandlerStacks_x", 190>>,         \* line 213
     <<"setDotSymbolValues_x", 191>>,           \* line 214
     <<"unif_rand_x", 192>>,                    \* line 215
     <<"useDynamicSymbols_x", 193>>,            \* line 216
     <<"Rf_asChar_x", 102>>,                    \* line 217
     <<"Rf_asCharacterFactor_x", 103>>,         \* line 218
     <<"Rf_asInteger_x", 104>>,                 \* line 219
     <<"Rf_asLogical_x", 105>>,                 \* line 220
     <<"Rf_asReal_x", 106>>,                    \* line 221
     <<"Rf_classgets_x", 107>>,                 \* line 222
     <<"Rf_coerceVector_x", 108>>,              \* line 223
     <<"Rf_cons_x", 109>>,                      \* line 224
     <<"Rf_copyListMatrix_x", 110>>,            \* line 225
     <<"Rf_copyMatrix_x", 111>>,                \* line 226
     <<"Rf_copyMostAttrib_x", 112>>,            \* line 227
     <<"Rf_dbeta_x", 113>>,                     \* line 228
     <<"Rf_dbinom_x", 114>>,                    \* line 229
     <<"Rf_dcauchy_x", 115>>,                   \* line 230
     <<"Rf_dchisq_x", 116>>,                    \* line 231
     <<"Rf_defineVar_x", 117>>,                 \* line 232
     <<"Rf_dexp_x", 118>>,                      \* line 233
     <<"Rf_df_x", 119>>,                        \* line 234
     <<"Rf_dgamma_x", 120>>,                    \* line 235
     <<"Rf_dgeom_x", 121>>,                     \* line 236
     <<"Rf_dhyper_x", 122>>,                    \* line 237
     <<"Rf_dlnorm_x", 123>>,                    \* line 238
     <<"Rf_dlogis_x", 124>>,                    \* line 239
     <<"Rf_dnbeta_x", 125>>,                    \* line 240
     <<"Rf_dnbinom_x", 126>>,                   \* line 241
     <<"Rf_dnbinom_mu_x", 127>>,                \* line 242
     <<"Rf_dnchisq_x", 128>>,                   \* line 243
     <<"Rf_dnf_x", 129>>,                       \* line 244
     <<"Rf_dnorm_x", 130>>,                     \* line 245
     <<"Rf_dnt_x", 131>>,                       \* line 246
     <<"Rf_dpois_x", 132>>,                     \* line 247
     <<"Rf_dsignrank_x", 133>>,                 \* line 248
     <<"Rf_dt_x", 134>>,                        \* line 249
     <<"Rf_dunif_x", 135>>,                     \* line 250
     <<"Rf_duplicate_x", 136>>,                 \* line 251
     <<"Rf_dweibull_x", 137>>,                  \* line 252
     <<"Rf_dwilcox_x", 138>>,                   \* line 253
     <<"Rf_error_x", 139>>,                     \* line 254
     <<"Rf_errorcall_x", 140>>,                 \* line 255
     <<"Rf_eval_x", 141>>,                      \* line 256
     <<"Rf_findFun_x", 142>>,                   \* line 257
     <<"Rf_findVar_x", 143>>,                   \* line 258
     <<"Rf_findVarInFrame_x", 144>>,            \* line 259
     <<"Rf_findVarInFrame3_x", 145>>,           \* line 260
     <<"Rf_ftrunc_x", 146>>,                    \* line 261
     <<"Rf_getAttrib_x", 147>>,                 \* line 262
     <<"Rf_gsetVar_x", 148>>,                   \* line 263
     <<"Rf_inherits_x", 149>>,                  \* line 264
     <<"Rf_install_x", 150>>,                   \* line 265
     <<"Rf_installChar_x", 151>>,               \* line 266
     <<"Rf_isNull_x", 152>>,                    \* line 267
     <<"Rf_isString_x", 153>>,                  \* line 268
     <<"Rf_lengthgets_x", 154>>,                \* line 269
     <<"Rf_match_x", 155>>,                     \* line 270
     <<"Rf_mkCharLenCE_x", 156>>,               \* line 271
     <<"Rf_namesgets_x", 157>>,                 \* line 272
     <<"Rf_ncols_x", 158>>,                     \* line 273
     <<"Rf_nrows_x", 159>>,                     \* line 274
     <<"Rf_pbeta_x", 160>>,                     \* line 275
     <<"Rf_pbinom_x", 161>>,                    \* line 276
     <<"Rf_pcauchy_x", 162>>,                   \* line 277
     <<"Rf_pchisq_x", 163>>,                    \* line 278
     <<"Rf_pexp_x", 164>>,                      \* line 279
     <<"Rf_pf_x", 165>>,                        \* line 280
     <<"Rf_pgamma_x", 166>>,                    \* line 281
     <<"Rf_pgeom_x", 167>>,                     \* line 282
     <<"Rf_phyper_x", 168>>,                    \* line 283
     <<"Rf_plnorm_x", 169>>,                    \* line 284
     <<"Rf_plogis_x", 170>>,                    \* line 285
     <<"Rf_pnbeta_x", 171>>,                    \* line 286
     <<"Rf_pnbinom_x", 172>>,                   \* line 287
     <<"Rf_pnbinom_mu_x", 173>>,                \* line 288
     <<"Rf_pnchisq_x", 174>>,                   \* line 289
     <<"Rf_pnf_x", 175>>,                       \* line 290
     <<"Rf_pnorm_x", 176>>,                     \* line 291
     <<"Rf_pnt_x", 177>>,                       \* line 292
     <<"Rf_ppois_x", 178>>,                     \* line 293
     <<"Rf_protect_x", 179>>,                   \* line 294
     <<"Rf_psignrank_x", 180>>,                 \* line 295
     <<"Rf_pt_x", 181>>,                        \* line 296
     <<"Rf_ptukey_x", 182>>,                    \* line 297
     <<"Rf_punif_x", 183>>,                     \* line 298
     <<"Rf_pweibull_x", 184>>,                  \* line 299
     <<"Rf_pwilcox_x", 185>>,                   \* line 300
     <<"Rf_qbeta_x", 186>>,                     \* line 301
     <<"Rf_qbinom_x", 187>>,                    \* line 302
     <<"Rf_qcauchy_x", 188>>,                   \* line 303
     <<"Rf_qchisq_x", 189>>,                    \* line 304
     <<"Rf_qexp_x", 190>>,                      \* line 305
     <<"Rf_qf_x", 191>>,                        \* line 306
     <<"Rf_qgamma_x", 192>>,                    \* line 307
     <<"Rf_qgeom_x", 193>>,                     \* line 308
     <<"Rf_qhyper_x", 194>>,                    \* line 309
     <<"Rf_qlnorm_x", 195>>,                    \* line 310
     <<"Rf_qlogis_x", 196>>,                    \* line 311
     <<"Rf_qnbeta_x", 197>>,                    \* line 312
     <<"Rf_qnbinom_x", 198>>,                   \* line 313
     <<"Rf_qnbinom_mu_x", 199>>,                \* line 314
     <<"Rf_qnchisq_x", 200>>,                   \* line 315
     <<"Rf_qnf_x", 201>>,                       \* line 316
     <<"Rf_qnorm_x", 202>>,                     \* line 317
     <<"Rf_qnt_x", 203>>,                       \* line 318
     <<"Rf_qpois_x", 204>>,                     \* line 319
     <<"Rf_qsignrank_x", 205>>,                 \* line 320
     <<"Rf_qt_x", 206>>,                        \* line 321
     <<"Rf_qtukey_x", 207>>,                    \* line 322
     <<"Rf_qunif_x", 208>>,                     \* line 323
     <<"Rf_qweibull_x", 209>>,                  \* line 324
     <<"Rf_qwilcox_x", 210>>,                   \* line 325
     <<"Rf_rbeta_x", 211>>,                     \* line 326
     <<"Rf_rbinom_x", 212>>,                    \* line 327
     <<"Rf_rcauchy_x", 213>>,                   \* line 328
     <<"Rf_rchisq_x", 214>>,                    \* line 329
     <<"Rf_rexp_x", 215>>,                      \* line 330
     <<"Rf_rf_x", 216>>,                        \* line 331
     <<"Rf_rgamma_x", 217>>,                    \* line 332
     <<"Rf_rgeom_x", 218>>,                     \* line 333
     <<"Rf_rhyper_x", 219>>,                    \* line 334
     <<"Rf_rlnorm_x", 220>>,                    \* line 335
     <<"Rf_rlogis_x", 221>>,                    \* line 336
     <<"Rf_rmultinom_x", 222>>,                 \* line 337
     <<"Rf_rnbinom_x", 223>>,                   \* line 338
     <<"Rf_rnbinom_mu_x", 224>>,                \* line 339
     <<"Rf_rnchisq_x", 225>>,                   \* line 340
     <<"Rf_rnorm_x", 226>>,                     \* line 341
     <<"Rf_rpois_x", 227>>,                     \* line 342
     <<"Rf_rsignrank_x", 228>>,                 \* line 343
     <<"Rf_rt_x", 229>>,                        \* line 344
     <<"Rf_runif_x", 230>>,                     \* line 345
     <<"Rf_rweibull_x", 231>>,                  \* line 346
     <<"Rf_rwilcox_x", 232>>,                   \* line 347
     <<"Rf_setAttrib_x", 233>>,                 \* line 348
     <<"Rf_str2type_x", 234>>,                  \* line 349
     <<"Rf_unprotect_x", 235>>,                 \* line 350
     <<"Rf_unprotect_ptr_x", 236>>,             \* line 351
     <<"Rf_warning_x", 237>>,                   \* line 352
     <<"Rf_warningcall_x", 238>>,               \* line 353
     <<"Rprintf_x", 239>>,                      \* line 354
     <<"SETCAD4R_x", 240>>,                     \* line 355
     <<"SETCADDDR_x", 241>>,                    \* line 356
     <<"SETCADDR_x", 242>>,                     \* line 357
     <<"SETCADR_x", 243>>,                      \* line 358
     <<"SETCAR_x", 244>>,                       \* line 359
     <<"SETCDR_x", 245>>,                       \* line 360
     <<"SET_BODY_x", 246>>,                     \* line 361
     <<"SET_CLOENV_x", 247>>,                   \* line 362
     <<"SET_FORMALS_x", 248>>,                  \* line 363
     <<"SET_NAMED_FASTR_x", 249>>,              \* line 364
     <<"SET_RDEBUG_x", 250>>,                   \* line 365
     <<"SET_RSTEP_x", 251>>,                    \* line 366
     <<"SET_S4_OBJECT_x", 252>>,                \* line 367
     <<"SET_STRING_ELT_x", 253>>,               \* line 368
     <<"SET_SYMVALUE_x", 254>>,                 \* line 369
     <<"SET_TAG_x", 255>>,                      \* line 370
     <<"SET_TYPEOF_FASTR_x", 256>>,             \* line 371
     <<"SET_VECTOR_ELT_x", 257>>,               \* line 372
     <<"STRING_ELT_x", 258>>,                   \* line 373
     <<"SYMVALUE_x", 259>>,                     \* line 374
     <<"TAG_x", 260>>,                          \* line 375
     <<"TYPEOF_x", 261>>,                       \* line 376
     <<"UNSET_S4_OBJECT_x", 262>>,              \* line 377
     <<"VECTOR_ELT_x", 263>>,                   \* line 378
     <<"forceSymbols_x", 264>>,                 \* line 379
     <<"getCCallable_x", 265>>,                 \* line 380
     <<"getConnectionClassString_x", 266>>,     \* line 381
     <<"getEmbeddingDLLInfo_x", 267>>,          \* line 382
     <<"getOpenModeString_x", 268>>,            \* line 383
     <<"getSummaryDescription_x", 269>>,        \* line 384
     <<"isSeekable_x", 270>>,                   \* line 385
     <<"octsize_x", 271>>,                      \* line 386
     <<"registerCCallable_x", 272>>,            \* line 387
     <<"registerRoutines_x", 273>>,             \* line 388
     <<"restoreHandlerStacks_x", 274>>,         \* line 389
     <<"setDotSymbolValues_x", 275>>,           \* line 390
     <<"unif_rand_x", 276>>,                    \* line 391
     <<"useDynamicSymbols_x", 277>>             \* line 392
  >>

\* The line of the first slot constant.
FirstLine == 5

\* A generator that emits the last slot where the count belongs.
LastSlotAsSize == Header[Len(Header)][2]

\* #define UPCALLS_TABLE_SIZE 278
UPCALLS_TABLE_SIZE == 278

NumDecls == Len(Header)

LineOf(i) == i + FirstLine - 1

NameAt(i) == Header[i][1]

\* A generator that numbers the slots from one.
SlotAtOneBased(i) == Header[i][2] + 1

\* A generator that numbers every line by its position and never restarts.
SlotAtSequential(i) == i - 1

SlotAt(i) == Header[i][2]

\* A macro table that keeps the first definition of a name.
DefineMacroFirstWins(m, n, s) == m @@ (n :> s)

\* Textual redefinition: the last definition of a name is the one in effect.
DefineMacro(m, n, s) == (n :> s) @@ m

VARIABLES
  pc,        \* "preprocess", "installing", "ready", "ConfigurationError"
  pos,       \* number of #define lines the preprocessor has read
  macros,    \* the preprocessor's macro table: name -> slot in effect
  slotsOf,   \* name -> every slot value the name has been declared with
  names,     \* the distinct names, in order of first declaration
  last,      \* the slot of the line read last
  passes,    \* the bindings of each generation pass, a pass per run of n, n+1, ...
  restarts,  \* the places where the value is not the previous value plus one
  tableSize, \* UPCALLS_TABLE_SIZE once line 394 is read, -1 before
  replace,   \* the implementation table's install mode
  inst,      \* number of names the eager initialisation has installed
  table,     \* implementation table: slot -> name of the bound implementation
  lastCall   \* the gateway's last call: <<slot, outcome>>, <<>> before any

vars == <<pc, pos, macros, slotsOf, names, last, passes, restarts, tableSize,
          replace, inst, table, lastCall>>

\* The slot registry's state, fed with the same declarations.
VARIABLES
  rpos,      \* number of declarations handed to register
  registry,  \* name -> slot
  regState,  \* "ok" or "ConfigurationError"
  returned   \* the slot the last register call returned, -1 if it failed

rvars == <<rpos, registry, regState, returned>>

allvars == <<vars, rvars>>

Empty == [x \in {} |-> 0]

RegistryInit ==
  /\ rpos = 0
  /\ registry = Empty
  /\ regState = "ok"
  /\ returned = -1


Init ==
  /\ pc = "preprocess"
  /\ pos = 0
  /\ macros = Empty
  /\ slotsOf = Empty
  /\ names = <<>>
  /\ last = -1
  /\ passes = <<Empty>>
  /\ restarts = <<>>
  /\ tableSize = -1
  /\ replace \in BOOLEAN
  /\ inst = 0
  /\ table = Empty
  /\ lastCall = <<>>
  /\ RegistryInit

\* The preprocessor reads the next #define line.
Define ==
  /\ pc = "preprocess"
  /\ pos < NumDecls
  /\ LET i == pos + 1
         n == NameAt(i)
         s == SlotAt(i)
         newPass == pos > 0 /\ s # last + 1
     IN  /\ pos' = i
         /\ macros' = DefineMacro(macros, n, s)
         /\ slotsOf' = IF n \in DOMAIN slotsOf
                         THEN [slotsOf EXCEPT ![n] = @ \cup {s}]
                         ELSE (n :> {s}) @@ slotsOf
         /\ names' = IF n \in DOMAIN macros THEN names ELSE Append(names, n)
         /\ passes' = IF newPass
                        THEN Append(passes, (n :> s))
                        ELSE [passes EXCEPT ![Len(passes)] = DefineMacro(@, n, s)]
         /\ restarts' = IF newPass
                          THEN Append(restarts, [line |-> LineOf(i), from |-> last, to |-> s])
                          ELSE restarts
         /\ last' = s
  /\ UNCHANGED <<rvars, pc, tableSize, replace, inst, table, lastCall>>

\* The preprocessor reads line 394; the header is complete and the
\* implementation table's initialisation starts.
DefineTableSize ==
  /\ pc = "preprocess"
  /\ pos = NumDecls
  /\ tableSize' = UPCALLS_TABLE_SIZE
  /\ pc' = "installing"
  /\ UNCHANGED <<rvars, pos, macros, slotsOf, names, last, passes, restarts, replace,
                 inst, table, lastCall>>

\* install(slot, callable, signature): binds the implementation to the slot;
\* an already-bound slot is a configuration error unless replace is requested.
InstallEntry(tab, s, n) == (s :> n) @@ tab

\* Eager initialisation: the next name of the registry is installed at the
\* slot the header gives it.
Install ==
  /\ pc = "installing"
  /\ inst < Len(names)
  /\ LET n == names[inst + 1]
         s == macros[n]
     IN  IF s \in DOMAIN table /\ ~replace
           THEN /\ pc' = "ConfigurationError"
                /\ UNCHANGED <<inst, table>>
           ELSE /\ table' = InstallEntry(table, s, n)
                /\ inst' = inst + 1
                /\ pc' = pc
  /\ UNCHANGED <<rvars, pos, macros, slotsOf, names, last, passes, restarts, tableSize,
                 replace, lastCall>>

\* End of initialisation: a slot of [0, size) left unbound fails it.
InitComplete ==
  /\ pc = "installing"
  /\ inst = Len(names)
  /\ pc' = IF \A s \in 0 .. (tableSize - 1) : s \in DOMAIN table
             THEN "ready"
             ELSE "ConfigurationError"
  /\ UNCHANGED <<rvars, pos, macros, slotsOf, names, last, passes, restarts, tableSize,
                 replace, inst, table, lastCall>>

\* invoke(slot, ...): the bounds check of the gateway.
Dispatch(s) == IF s >= tableSize THEN "ABIViolation" ELSE "dispatched"

\* Native code calls the gateway with a slot constant it was compiled with:
\* any value the header declares for some name.
Invoke ==
  /\ pc = "ready"
  /\ \E n \in DOMAIN slotsOf : \E s \in slotsOf[n] :
       lastCall' = <<s, Dispatch(s)>>
  /\ UNCHANGED <<rvars, pc, pos, macros, slotsOf, names, last, passes, restarts,
                 tableSize, replace, inst, table>>

Next == Define \/ DefineTableSize \/ Install \/ InitComplete \/ Invoke

Spec == Init /\ [][Next]_allvars

(***************************************************************************)
(* The slot registry fed with the header's declarations in file order.    *)
(***************************************************************************)
\* A registry that lets a later declaration replace the earlier binding.
RegisterLastWins(reg, n, s) ==
  [state |-> "ok", registry |-> (n :> s) @@ reg, slot |-> s]

\* register(name, slot): [state, registry, returned slot].
Register(reg, n, s) ==
  IF n \notin DOMAIN reg
    THEN [state |-> "ok", registry |-> (n :> s) @@ reg, slot |-> s]
    ELSE IF reg[n] = s
           THEN [state |-> "ok", registry |-> reg, slot |-> reg[n]]
           ELSE [state |-> "ConfigurationError", registry |-> reg, slot |-> -1]

\* The generation step registers the next declaration; a configuration
\* error is fatal and ends the generation.
RegisterNext ==
  /\ regState = "ok"
  /\ rpos < NumDecls
  /\ LET r == Register(registry, NameAt(rpos + 1), SlotAt(rpos + 1))
     IN  /\ rpos' = rpos + 1
         /\ registry' = r.registry
         /\ regState' = r.state
         /\ returned' = r.slot
  /\ UNCHANGED vars

RegistryNext == RegisterNext

RegistrySpec == Init /\ [][RegistryNext]_allvars

(***************************************************************************)
(* Properties.                                                             *)
(***************************************************************************)

\* The header has been read to its end (line 394 included).
HeaderRead == pc # "preprocess"

\* The slots in effect once the names are resolved.
EffectiveSlots == {macros[n] : n \in DOMAIN macros}

\* C1: every upcall name is bound to exactly one slot value: any two
\* declarations of a name anywhere in the file give it the same slot.
C1_OneSlotPerName ==
  \A n \in DOMAIN slotsOf : Cardinality(slotsOf[n]) = 1

C3_SizeIsDistinctNames ==
  HeaderRead => tableSize = Cardinality(DOMAIN macros)

\* C4: under the effective bindings the slots have no gaps: every s with
\* 0 <= s < UPCALLS_TABLE_SIZE is the effective slot of at least one name.
C4_SlotsContiguous ==
  HeaderRead => (0 .. (tableSize - 1)) \subseteq EffectiveSlots

\* The whole header is read, with a name whose effective slot is a
\* re-declared one.
C4_Witness ==
  /\ pc = "installing"
  /\ inst = 0
  /\ tableSize = 278
  /\ pos = NumDecls
  /\ macros["Rf_asChar_x"] = 102
  /\ macros["useDynamicSymbols_x"] = 277

\* C5: eager initialisation in fail-fast mode never installs into an
\* already-bound slot and ends with every slot of [0, UPCALLS_TABLE_SIZE)
\* bound exactly once.
C5_FailFastBindsEachSlotOnce ==
  ~replace =>
    /\ pc # "ConfigurationError"
    /\ pc = "ready" => /\ DOMAIN table = 0 .. (tableSize - 1)
                       /\ inst = Cardinality(DOMAIN table)

\* C6: the slot constants are append-only across the generation passes:
\* a name of an earlier pass is in the last pass with the same slot, and a
\* later pass adds names only at slots above all earlier ones.
C6_AppendOnly ==
  HeaderRead =>
    LET lastPass == passes[Len(passes)]
    IN  /\ \A p \in 1 .. (Len(passes) - 1) : \A n \in DOMAIN passes[p] :
             n \in DOMAIN lastPass /\ lastPass[n] = passes[p][n]
        /\ \A q \in 2 .. Len(passes) : \A n \in DOMAIN passes[q] :
             (\A p \in 1 .. (q - 1) : n \notin DOMAIN passes[p])
               => \A p \in 1 .. (q - 1) : \A m \in DOMAIN passes[p] :
                    passes[p][m] < passes[q][n]

\* C7: every slot value declared anywhere in the header, overridden ones
\* included, is in [0, UPCALLS_TABLE_SIZE), so the gateway's bounds check
\* never answers ABIViolation for a constant of this header.
C7_DeclaredSlotsInBounds ==
  /\ HeaderRead =>
       \A n \in DOMAIN slotsOf : \A s \in slotsOf[n] : 0 <= s /\ s < tableSize
  /\ lastCall # <<>> => lastCall[2] # "ABIViolation"

\* The gateway has dispatched the highest slot of the header, and the header
\* holds an overridden value (103 for Rf_asChar_x, whose effective slot is 102).
C7_Witness ==
  /\ pc = "ready"
  /\ lastCall = <<277, "dispatched">>
  /\ 103 \in slotsOf["Rf_asChar_x"]
  /\ macros["Rf_asChar_x"] = 102

\* C8: some name is declared with slot 102 at one place and with slot 186
\* at another.
C8_NameWith102And186 ==
  HeaderRead => \E n \in DOMAIN slotsOf : {102, 186} \subseteq slotsOf[n]

\* C8, amended: some name is declared with slot 103 at one place and with
\* slot 102 at another (Rf_asChar_x, lines 108 and 217); no name is declared
\* with both 102 and 186.
C8_NameWith103And102 ==
  HeaderRead =>
    /\ slotsOf["Rf_asChar_x"] = {102, 103}
    /\ \A n \in DOMAIN slotsOf : ~({102, 186} \subseteq slotsOf[n])

\* The header is read; the names that hold 102 or 186 among their values.
C8_Witness ==
  /\ HeaderRead
  /\ inst = 0
  /\ {n \in DOMAIN slotsOf : 102 \in slotsOf[n]}
       = {"Rf_any_duplicated3_x", "Rf_asChar_x"}
  /\ {n \in DOMAIN slotsOf : 186 \in slotsOf[n]}
       = {"isSeekable_x", "Rf_qbeta_x"}
  /\ slotsOf["isSeekable_x"] = {186, 270}

\* C9: in file order every value is the previous value plus one, except at
\* lines 199, 209 and 217, where the value restarts at a lower number; the
\* first value is 0 and the last is UPCALLS_TABLE_SIZE - 1.
C9_RestartsLower ==
  /\ \A k \in 1 .. Len(restarts) :
       /\ restarts[k].line \in {199, 209, 217}
       /\ restarts[k].to < restarts[k].from
  /\ pos = 1 => last = 0
  /\ HeaderRead => Len(restarts) = 3 /\ last = tableSize - 1

\* C9, amended: every value is the previous value plus one, except at lines
\* 199, 209 and 217; at lines 199 and 217 the value restarts at a lower
\* number, at line 209 it jumps to a higher one (111 to 186); the first value
\* is 0 and the last is UPCALLS_TABLE_SIZE - 1.
C9_RestartsLowerOrHigher ==
  /\ \A k \in 1 .. Len(restarts) :
       /\ restarts[k].line \in {199, 209, 217}
       /\ restarts[k].line \in {199, 217} => restarts[k].to < restarts[k].from
       /\ restarts[k].line = 209 => restarts[k].to > restarts[k].from
  /\ pos = 1 => last = 0
  /\ HeaderRead => Len(restarts) = 3 /\ last = tableSize - 1

\* The header is read and its three breaks are recorded.
C9_Witness ==
  /\ HeaderRead
  /\ inst = 0
  /\ restarts = << [line |-> 199, from |-> 193, to |-> 102],
                   [line |-> 209, from |-> 111, to |-> 186],
                   [line |-> 217, from |-> 193, to |-> 102] >>

\* C10: for names of both the first and the last pass, the order of the
\* slots is the same in both passes, and no name's last-pass slot is below
\* its first-pass slot.
C10_OrderKeptNoSlotLowered ==
  HeaderRead =>
    LET first == passes[1]
        lastPass == passes[Len(passes)]
        both == DOMAIN first \cap DOMAIN lastPass
    IN  /\ \A a \in both : lastPass[a] >= first[a]
        /\ \A a, b \in both :
             (first[a] < first[b]) <=> (lastPass[a] < lastPass[b])

====
